---- MODULE Spec2Model ----
(***************************************************************************)
(* Model of src/main.py: the LocationFinder ranking pipeline               *)
(* (get_coordinates, search_places, haversine_distance,                    *)
(* calculate_distances, find_nearest_locations) and the interactive loop   *)
(* of main().                                                              *)
(*                                                                         *)
(* Numbers.  Python floats are modelled in fixed point with round to       *)
(* nearest: a dimensionless value v is the integer v * Scale, an angle in  *)
(* radians is a whole number of units of pi/24 (7.5 degrees), so that the  *)
(* halved differences of coordinates that are multiples of 15 degrees stay *)
(* exact, and a distance is an integer number of metres.  distance_km,     *)
(* the value round(distance, 2), is an integer number of hundredths of a   *)
(* kilometre.                                                              *)
(*                                                                         *)
(* Optional values.  Python's None is the empty tuple and a present value  *)
(* v the one-element tuple <<v>>.  A JSON object is a record whose DOMAIN   *)
(* is the set of keys that are present.  A numeric rating is written as    *)
(* its decimal text, so that it can share a field with 'No rating'.        *)
(***************************************************************************)
EXTENDS Integers, Sequences, FiniteSets, TLC

VARIABLES
    pc,            \* position of main(): the next statement to run
    address,       \* main.address: the stripped line, None before it is read
    location_type, \* main.location_type, None before it is read
    geoResp,       \* what the geocoding service answered to the current query
    placesResp,    \* what the nearby-search service answered to the current query
    user,          \* find_nearest_locations: (user_lat, user_lng)
    places,        \* find_nearest_locations: the list search_places returned
    results,       \* main.results: the list find_nearest_locations returned
    calls,         \* the collaborator calls made by the current query, in order
    raised,        \* the exception travelling to / handled by main's try, "" if none
    topN,          \* the number printed in the "Top N Results" header, None if not printed
    shown,         \* the entries printed by the loop of lines 145-150, in order
    message,       \* the last status line printed in this iteration, "" if none
    quitEntered,   \* the sentinel keyword was read at the address prompt
    interrupted,   \* a KeyboardInterrupt was raised
    exitKind       \* how main() ended: "" while running, "break" or "uncaught"

vars == <<pc, address, location_type, geoResp, placesResp, user, places, results,
          calls, raised, topN, shown, message, quitEntered, interrupted, exitKind>>

None == <<>>
Some(v) == <<v>>

Min(a, b) == IF a <= b THEN a ELSE b

(***************************************************************************)
(* Fixed-point arithmetic                                                  *)
(***************************************************************************)
Scale == 10 * 1000

\* n / d rounded to the nearest integer, halves away from zero (d > 0)
RDiv(n, d) == IF n >= 0 THEN (2 * n + d) \div (2 * d)
                        ELSE -((2 * (-n) + d) \div (2 * d))

\* n / d rounded to the nearest integer, halves to the even neighbour (d > 0, n >= 0)
RoundHalfEven(n, d) ==
    LET q == n \div d
        r == n % d
    IN  IF 2 * r < d THEN q
        ELSE IF 2 * r > d THEN q + 1
        ELSE IF q % 2 = 0 THEN q ELSE q + 1

\* the integer nearest to the square root of n (n >= 0)
RECURSIVE IsqrtFloor(_, _, _)
IsqrtFloor(n, lo, hi) ==
    IF lo >= hi THEN lo
    ELSE LET mid == (lo + hi + 1) \div 2
         IN  IF mid * mid <= n THEN IsqrtFloor(n, mid, hi)
                               ELSE IsqrtFloor(n, lo, mid - 1)

\* math.sqrt on fixed-point values: Scale * sqrt(x / Scale), correctly rounded
Sqrt(x) ==
    LET n == x * Scale
        f == IsqrtFloor(n, 0, 2 * Scale)
    IN  IF n - f * f > f THEN f + 1 ELSE f

\* sin(k * pi/24) * Scale for k = 0..12, each correctly rounded
SinTab == <<0, 1305, 2588, 3827, 5000, 6088, 7071, 7934, 8660, 9239, 9659, 9914, 10000>>

\* pi/24 * Scale
AngleUnitScaled == 1309

\* math.radians: degrees (a multiple of 15 on the model's grid) to units of pi/24
Radians(deg) == (2 * deg) \div 15

\* math.sin of an angle of k units of pi/24
Sin(k) ==
    LET m == k % 48
    IN  IF m <= 12 THEN SinTab[m + 1]
        ELSE IF m <= 24 THEN SinTab[24 - m + 1]
        ELSE IF m <= 36 THEN -SinTab[m - 24 + 1]
        ELSE -SinTab[48 - m + 1]

\* math.cos of an angle of k units of pi/24
Cos(k) == Sin(k + 12)

\* x * y on fixed-point values
Mul(x, y) == RDiv(x * y, Scale)

\* math.asin raises ValueError outside [-1, 1]
AsinDomainError(x) == x < -Scale \/ x > Scale

\* math.asin on [0, 1]: exact at the table's points, interpolated between them;
\* the result is in radians * Scale
Asin(x) ==
    LET k == CHOOSE j \in 1..12 : SinTab[j] <= x /\ x <= SinTab[j + 1]
        lo == SinTab[k]
        hi == SinTab[k + 1]
    IN  (k - 1) * AngleUnitScaled + RDiv((x - lo) * AngleUnitScaled, hi - lo)

EarthRadiusKm == 6371

\* haversine_distance, line 79: the term a
HaversineA(lat1, lon1, lat2, lon2) ==
    LET rlat1 == Radians(lat1)
        rlon1 == Radians(lon1)
        rlat2 == Radians(lat2)
        rlon2 == Radians(lon2)
        dlat == rlat2 - rlat1
        dlon == rlon2 - rlon1
        sdlat == Sin(dlat \div 2)
        sdlon == Sin(dlon \div 2)
    IN  Mul(sdlat, sdlat) + Mul(Mul(Cos(rlat1), Cos(rlat2)), Mul(sdlon, sdlon))

\* haversine_distance: the distance in metres, or the ValueError that
\* math.sqrt / math.asin raise outside their domain
haversine_distance(lat1, lon1, lat2, lon2) ==
    LET a == HaversineA(lat1, lon1, lat2, lon2)
    IN  IF a < 0 THEN [raised |-> "ValueError", metres |-> 0]
        ELSE IF AsinDomainError(Sqrt(a)) THEN [raised |-> "ValueError", metres |-> 0]
        ELSE [raised |-> "", metres |-> RDiv(2 * Asin(Sqrt(a)) * EarthRadiusKm, 10)]

\* round(distance, 2): metres to hundredths of a kilometre
Round2(metres) == RoundHalfEven(metres, 10)

(***************************************************************************)
(* Text: a line of input is a sequence of one-character strings            *)
(***************************************************************************)
UpperAlpha == <<"A", "B", "C", "D", "E", "F", "G", "H", "I", "J", "K", "L", "M",
                "N", "O", "P", "Q", "R", "S", "T", "U", "V", "W", "X", "Y", "Z">>
LowerAlpha == <<"a", "b", "c", "d", "e", "f", "g", "h", "i", "j", "k", "l", "m",
                "n", "o", "p", "q", "r", "s", "t", "u", "v", "w", "x", "y", "z">>
Whitespace == {" ", "\t"}

LowerChar(c) ==
    IF \E i \in 1..26 : UpperAlpha[i] = c
    THEN LowerAlpha[CHOOSE i \in 1..26 : UpperAlpha[i] = c]
    ELSE c

\* str.lower
Lower(s) == [i \in 1..Len(s) |-> LowerChar(s[i])]

RECURSIVE LStrip(_)
LStrip(s) == IF s # <<>> /\ Head(s) \in Whitespace THEN LStrip(Tail(s)) ELSE s

RECURSIVE RStrip(_)
RStrip(s) ==
    IF s # <<>> /\ s[Len(s)] \in Whitespace THEN RStrip(SubSeq(s, 1, Len(s) - 1)) ELSE s

\* str.strip
Strip(s) == RStrip(LStrip(s))

QuitKeyword == <<"q", "u", "i", "t">>

\* ', '.join(tags)
RECURSIVE JoinTags(_)
JoinTags(tags) ==
    IF tags = <<>> THEN ""
    ELSE IF Len(tags) = 1 THEN tags[1]
    ELSE tags[1] \o ", " \o JoinTags(Tail(tags))

\* dict.get(key, default)
Get(obj, key, default) == IF key \in DOMAIN obj THEN obj[key] ELSE default

(***************************************************************************)
(* The two collaborators' answers.  net is the outcome of requests.get,    *)
(* http the status code raise_for_status looks at, json whether the body   *)
(* parses, data the parsed body.                                           *)
(***************************************************************************)
NoResponse == [net |-> "none"]
Response(net, http, json, data) == [net |-> net, http |-> http, json |-> json, data |-> data]

NoCoordinates == <<None, None>>

\* get_coordinates, lines 37-42: the coordinate in the parsed body; a missing
\* key raises KeyError and an empty result list IndexError
GeocodeLocation(data) ==
    IF "status" \notin DOMAIN data THEN NoCoordinates
    ELSE IF data.status # "OK" THEN NoCoordinates
    ELSE IF "results" \notin DOMAIN data THEN NoCoordinates
    ELSE IF data.results = <<>> THEN NoCoordinates
    ELSE LET first == data.results[1]
         IN  IF "geometry" \notin DOMAIN first THEN NoCoordinates
             ELSE IF "location" \notin DOMAIN first.geometry THEN NoCoordinates
             ELSE LET location == first.geometry.location
                  IN  IF "lat" \notin DOMAIN location THEN NoCoordinates
                      ELSE IF "lng" \notin DOMAIN location THEN NoCoordinates
                      ELSE <<Some(location.lat), Some(location.lng)>>

\* get_coordinates without the call of raise_for_status
get_coordinates_NoRaiseForStatus(resp) ==
    IF resp.net # "ok" THEN NoCoordinates
    ELSE IF ~resp.json THEN NoCoordinates
    ELSE GeocodeLocation(resp.data)

\* get_coordinates, lines 30-45: every exception inside the try is caught
get_coordinates(resp) ==
    IF resp.net # "ok" THEN NoCoordinates
    ELSE IF resp.http >= 400 THEN NoCoordinates
    ELSE IF ~resp.json THEN NoCoordinates
    ELSE GeocodeLocation(resp.data)

\* search_places that returns the results whatever the status says
search_places_AnyStatus(resp) ==
    IF resp.net # "ok" THEN <<>>
    ELSE IF resp.http >= 400 THEN <<>>
    ELSE IF ~resp.json THEN <<>>
    ELSE IF "results" \notin DOMAIN resp.data THEN <<>>
    ELSE resp.data.results

\* search_places, lines 55-69: every exception inside the try is caught
search_places(resp) ==
    IF resp.net # "ok" THEN <<>>
    ELSE IF resp.http >= 400 THEN <<>>
    ELSE IF ~resp.json THEN <<>>
    ELSE LET data == resp.data
         IN  IF "status" \notin DOMAIN data THEN <<>>
             ELSE IF data.status # "OK" THEN <<>>
             ELSE IF "results" \notin DOMAIN data THEN <<>>
             ELSE data.results

(***************************************************************************)
(* calculate_distances and the sort                                        *)
(***************************************************************************)
\* the entry with the address read from a key the records do not have
ResultEntry_AddressKey(place, place_lat, place_lng, metres) ==
    [name |-> Get(place, "name", "Unknown"),
     address |-> Get(place, "address", "Address not available"),
     distance_km |-> Round2(metres),
     rating |-> Get(place, "rating", "No rating"),
     types |-> JoinTags(Get(place, "types", <<>>)),
     coordinates |-> <<place_lat, place_lng>>]

\* lines 95-102: the entry appended for a place at distance `metres`
ResultEntry(place, place_lat, place_lng, metres) ==
    [name |-> Get(place, "name", "Unknown"),
     address |-> Get(place, "vicinity", "Address not available"),
     distance_km |-> Round2(metres),
     rating |-> Get(place, "rating", "No rating"),
     types |-> JoinTags(Get(place, "types", <<>>)),
     coordinates |-> <<place_lat, place_lng>>]

\* line 90
HasLocation(place) ==
    "geometry" \in DOMAIN place /\ "location" \in DOMAIN place.geometry

\* calculate_distances, lines 88-103: the loop from the i-th place on, with
\* the entries collected so far; a subscript on a missing key raises KeyError
RECURSIVE CalculateFrom(_, _, _, _, _)
CalculateFrom(user_lat, user_lng, placeList, i, acc) ==
    IF i > Len(placeList) THEN [raised |-> "", value |-> acc]
    ELSE LET place == placeList[i]
         IN  IF HasLocation(place)
             THEN LET location == place.geometry.location
                  IN  IF "lat" \notin DOMAIN location \/ "lng" \notin DOMAIN location
                      THEN [raised |-> "KeyError", value |-> <<>>]
                      ELSE LET d == haversine_distance(user_lat, user_lng,
                                                       location.lat, location.lng)
                           IN  IF d.raised # ""
                               THEN [raised |-> d.raised, value |-> <<>>]
                               ELSE CalculateFrom(user_lat, user_lng, placeList, i + 1,
                                        Append(acc, ResultEntry(place, location.lat,
                                                                location.lng, d.metres)))
             ELSE CalculateFrom(user_lat, user_lng, placeList, i + 1, acc)

calculate_distances(user_lat, user_lng, placeList) ==
    CalculateFrom(user_lat, user_lng, placeList, 1, <<>>)

\* an insertion that puts e before the entries of equal key
RECURSIVE InsertBeforeEqual(_, _)
InsertBeforeEqual(s, e) ==
    IF s = <<>> THEN <<e>>
    ELSE IF e.distance_km <= Head(s).distance_km THEN <<e>> \o s
    ELSE <<Head(s)>> \o InsertBeforeEqual(Tail(s), e)

\* the place of entry e in the sorted list s: after every entry whose key is
\* not greater (Python's sort is stable)
RECURSIVE InsertByDistance(_, _)
InsertByDistance(s, e) ==
    IF s = <<>> THEN <<e>>
    ELSE IF e.distance_km < Head(s).distance_km THEN <<e>> \o s
    ELSE <<Head(s)>> \o InsertByDistance(Tail(s), e)

RECURSIVE SortFrom(_, _, _)
SortFrom(list, i, acc) ==
    IF i > Len(list) THEN acc ELSE SortFrom(list, i + 1, InsertByDistance(acc, list[i]))

\* the list left in the order of the candidates
SortedByDistance_Unsorted(list) == list

\* sorted(results, key=lambda x: x['distance_km']), line 125
SortedByDistance(list) == SortFrom(list, 1, <<>>)

\* line 111
CoordinatesMissing(coords) == coords[1] = None \/ coords[2] = None

\* find_nearest_locations, lines 116-125: what follows the call of search_places
RankPlaces(coords, placeList) ==
    IF placeList = <<>> THEN [raised |-> "", value |-> <<>>]
    ELSE LET r == calculate_distances(coords[1][1], coords[2][1], placeList)
         IN  IF r.raised # "" THEN r
             ELSE [raised |-> "", value |-> SortedByDistance(r.value)]

DisplayLimit == 10

\* the loop of line 145 without the slice
DisplaySlice_All(list) == list

\* results[:10], line 145
DisplaySlice(list) == SubSeq(list, 1, Min(DisplayLimit, Len(list)))

(***************************************************************************)
(* Inputs: what the user types and what the two services answer            *)
(***************************************************************************)
MaxPlaces == 3
MaxLong == 12

AddressLines == {<<"q", "u", "i", "t">>,
                 <<" ", "Q", "u", "i", "T", "\t">>,
                 <<"R", "o", "m", "e", " ">>,
                 <<"q", "u", "i", "t", "s">>}

TypeLines == {<<" ", "C", "a", "f", "e">>, <<"c", "a", "f", "e", " ">>}

Geometry(lat, lng) == [location |-> [lat |-> lat, lng |-> lng]]

PlaceA == [name |-> "Alpha", vicinity |-> "1 Main St", rating |-> "4.5",
           types |-> <<"cafe", "food">>, geometry |-> Geometry(15, 0)]
PlaceB == [vicinity |-> "2 Side St", types |-> <<"bar">>, geometry |-> Geometry(0, 15)]
PlaceC == [name |-> "Gamma", rating |-> "3.8", geometry |-> Geometry(-45, 90)]
PlaceD == [name |-> "Delta", geometry |-> Geometry(0, 0)]
PlaceE == [name |-> "Echo", vicinity |-> "5 Back Rd"]
PlaceF == [name |-> "Foxtrot", geometry |-> [viewport |-> "none"]]
PlaceG == [name |-> "Golf", geometry |-> [location |-> [lng |-> 15]]]
PlaceH == [name |-> "Hotel", geometry |-> [location |-> [lat |-> 15]]]
PlaceI == [name |-> "India", types |-> <<"cafe">>, geometry |-> Geometry(15, 0)]

PlacePool == {PlaceA, PlaceB, PlaceC, PlaceD, PlaceE, PlaceF, PlaceG, PlaceH, PlaceI}

ShortLists == UNION {[1..n -> PlacePool] : n \in 0..MaxPlaces}

\* the i-th place of a long answer: one place per latitude of the grid, not in
\* the order of the latitudes
LongPlace(i) == [name |-> "P" \o ToString(i),
                 geometry |-> Geometry(15 * ((5 * i) % 13) - 90, 0)]

LongLists == {[i \in 1..n |-> LongPlace(i)] : n \in (DisplayLimit - 1)..MaxLong}

OkBody(list) == [status |-> "OK", results |-> list]

FailedResponses(list) ==
    {[net |-> "ConnectionError"],
     Response("ok", 500, TRUE, OkBody(list)),
     Response("ok", 200, FALSE, [text |-> "<html>"]),
     Response("ok", 200, TRUE, [status |-> "REQUEST_DENIED", results |-> list]),
     Response("ok", 200, TRUE, [results |-> list]),
     Response("ok", 200, TRUE, [status |-> "OK"])}

GeoResponses ==
    {Response("ok", 200, TRUE, OkBody(<<[geometry |-> Geometry(0, 0)]>>)),
     Response("ok", 200, TRUE, OkBody(<<[geometry |-> Geometry(45, -75)],
                                        [geometry |-> Geometry(0, 0)]>>)),
     Response("ok", 200, TRUE, [status |-> "ZERO_RESULTS", results |-> <<>>]),
     Response("ok", 200, TRUE, OkBody(<<>>)),
     Response("ok", 200, TRUE, OkBody(<<[geometry |-> [location |-> [lng |-> 0]]]>>))}
    \cup FailedResponses(<<[geometry |-> Geometry(0, 0)]>>)

PlacesResponses ==
    {Response("ok", 200, TRUE, OkBody(list)) : list \in ShortLists \cup LongLists}
    \cup {Response("ok", 200, TRUE, [status |-> "ZERO_RESULTS", results |-> <<>>])}
    \cup FailedResponses(<<PlaceA>>)

(***************************************************************************)
(* main(): one action per blocking statement of the loop, lines 133-159    *)
(***************************************************************************)
queryVars == <<geoResp, placesResp, user, places, results, calls>>
outputVars == <<topN, shown, message>>

Init ==
    /\ pc = "input_address"
    /\ address = None
    /\ location_type = None
    /\ geoResp = NoResponse
    /\ placesResp = NoResponse
    /\ user = NoCoordinates
    /\ places = <<>>
    /\ results = <<>>
    /\ calls = <<>>
    /\ raised = ""
    /\ topN = None
    /\ shown = <<>>
    /\ message = ""
    /\ quitEntered = FALSE
    /\ interrupted = FALSE
    /\ exitKind = ""

\* a new iteration of `while True` starts: nothing of the previous query or
\* of its output is looked at again
NewIteration ==
    /\ geoResp' = NoResponse
    /\ placesResp' = NoResponse
    /\ user' = NoCoordinates
    /\ places' = <<>>
    /\ results' = <<>>
    /\ calls' = <<>>
    /\ topN' = None
    /\ shown' = <<>>
    /\ message' = ""

\* lines 135-137: input() returns a line
ReadAddress ==
    /\ pc = "input_address"
    /\ \E line \in AddressLines :
        /\ address' = Some(Strip(line))
        /\ IF Lower(Strip(line)) = QuitKeyword
           THEN /\ quitEntered' = TRUE
                /\ pc' = "exited"
                /\ exitKind' = "break"
           ELSE /\ pc' = "input_type"
                /\ UNCHANGED <<quitEntered, exitKind>>
    /\ NewIteration
    /\ raised' = ""
    /\ UNCHANGED <<location_type, interrupted>>

\* line 135: input() raises EOFError
ReadAddressFails ==
    /\ pc = "input_address"
    /\ NewIteration
    /\ raised' = "EOFError"
    /\ pc' = "except_exception"
    /\ UNCHANGED <<address, location_type, quitEntered, interrupted, exitKind>>

\* line 139
ReadType ==
    /\ pc = "input_type"
    /\ \E line \in TypeLines : location_type' = Some(Lower(Strip(line)))
    /\ pc' = "get_coordinates"
    /\ UNCHANGED <<address, queryVars, raised, outputVars, quitEntered, interrupted, exitKind>>

\* line 139: input() raises EOFError
ReadTypeFails ==
    /\ pc = "input_type"
    /\ raised' = "EOFError"
    /\ pc' = "except_exception"
    /\ UNCHANGED <<address, location_type, queryVars, outputVars, quitEntered,
                   interrupted, exitKind>>

\* find_nearest_locations, lines 110-113: the resolve call and the check of it
GetCoordinates ==
    /\ pc = "get_coordinates"
    /\ \E resp \in GeoResponses :
        /\ geoResp' = resp
        /\ calls' = Append(calls, "get_coordinates")
        /\ user' = get_coordinates(resp)
        /\ IF CoordinatesMissing(get_coordinates(resp))
           THEN /\ results' = <<>>
                /\ pc' = "print"
           ELSE /\ results' = results
                /\ pc' = "search_places"
    /\ UNCHANGED <<address, location_type, placesResp, places, raised, outputVars,
                   quitEntered, interrupted, exitKind>>

\* find_nearest_locations, lines 116-125: the search call, the distances and
\* the sort; an exception leaves the function and reaches main's handler
SearchPlaces ==
    /\ pc = "search_places"
    /\ \E resp \in PlacesResponses :
        LET found == search_places(resp)
            ranked == RankPlaces(user, found)
        IN  /\ placesResp' = resp
            /\ calls' = Append(calls, "search_places")
            /\ places' = found
            /\ IF ranked.raised # ""
               THEN /\ raised' = ranked.raised
                    /\ pc' = "except_exception"
                    /\ UNCHANGED results
               ELSE /\ results' = ranked.value
                    /\ pc' = "print"
                    /\ UNCHANGED raised
    /\ UNCHANGED <<address, location_type, geoResp, user, outputVars, quitEntered,
                   interrupted, exitKind>>

\* lines 143-150: the header and the entries are printed
PrintResults ==
    /\ pc = "print"
    /\ results # <<>>
    /\ topN' = Some(Min(DisplayLimit, Len(results)))
    /\ shown' = DisplaySlice(results)
    /\ message' = "results"
    /\ pc' = "input_address"
    /\ UNCHANGED <<address, location_type, queryVars, raised, quitEntered, interrupted,
                   exitKind>>

\* lines 143-150: a print raises (the stream is closed or cannot encode the
\* text) at the header (k = 0) or after k - 1 entries were printed
PrintResultsFails ==
    /\ pc = "print"
    /\ results # <<>>
    /\ \E k \in 0..Len(DisplaySlice(results)) :
        /\ topN' = IF k = 0 THEN None ELSE Some(Min(DisplayLimit, Len(results)))
        /\ shown' = IF k = 0 THEN <<>> ELSE SubSeq(DisplaySlice(results), 1, k - 1)
    /\ raised' = "OSError"
    /\ pc' = "except_exception"
    /\ UNCHANGED <<address, location_type, queryVars, message, quitEntered, interrupted,
                   exitKind>>

\* lines 151-152
PrintNoResults ==
    /\ pc = "print"
    /\ results = <<>>
    /\ message' = "no_results"
    /\ pc' = "input_address"
    /\ UNCHANGED <<address, location_type, queryVars, raised, topN, shown, quitEntered,
                   interrupted, exitKind>>

\* line 152: the print raises
PrintNoResultsFails ==
    /\ pc = "print"
    /\ results = <<>>
    /\ raised' = "OSError"
    /\ pc' = "except_exception"
    /\ UNCHANGED <<address, location_type, queryVars, outputVars, quitEntered,
                   interrupted, exitKind>>

\* a KeyboardInterrupt inside the try body, lines 135-152: `except Exception`
\* (in main and in the two collaborator methods) does not catch it
Interrupt ==
    /\ pc \in {"input_address", "input_type", "get_coordinates", "search_places", "print"}
    /\ interrupted' = TRUE
    /\ pc' = "except_interrupt"
    /\ IF pc = "input_address"
       THEN NewIteration /\ raised' = ""
       ELSE UNCHANGED <<queryVars, outputVars, raised>>
    /\ UNCHANGED <<address, location_type, quitEntered, exitKind>>

\* lines 154-156
HandleInterrupt ==
    /\ pc = "except_interrupt"
    /\ message' = "cancelled"
    /\ pc' = "exited"
    /\ exitKind' = "break"
    /\ UNCHANGED <<address, location_type, queryVars, raised, topN, shown, quitEntered,
                   interrupted>>

\* line 155: the print raises inside the handler and leaves main()
HandleInterruptFails ==
    /\ pc = "except_interrupt"
    /\ pc' = "exited"
    /\ exitKind' = "uncaught"
    /\ UNCHANGED <<address, location_type, queryVars, raised, outputVars, quitEntered,
                   interrupted>>

\* lines 157-159: the error is reported and the loop goes on
HandleException ==
    /\ pc = "except_exception"
    /\ message' = "error"
    /\ pc' = "input_address"
    /\ UNCHANGED <<address, location_type, queryVars, raised, topN, shown, quitEntered,
                   interrupted, exitKind>>

\* line 158: the print raises inside the handler; no handler of the same try
\* statement catches it and it leaves main()
HandleExceptionFails ==
    /\ pc = "except_exception"
    /\ pc' = "exited"
    /\ exitKind' = "uncaught"
    /\ UNCHANGED <<address, location_type, queryVars, raised, outputVars, quitEntered,
                   interrupted>>

\* a KeyboardInterrupt inside the handler of lines 157-159 leaves main()
InterruptInHandler ==
    /\ pc = "except_exception"
    /\ interrupted' = TRUE
    /\ pc' = "exited"
    /\ exitKind' = "uncaught"
    /\ UNCHANGED <<address, location_type, queryVars, raised, outputVars, quitEntered>>

Next ==
    \/ ReadAddress
    \/ ReadAddressFails
    \/ ReadType
    \/ ReadTypeFails
    \/ GetCoordinates
    \/ SearchPlaces
    \/ PrintResults
    \/ PrintResultsFails
    \/ PrintNoResults
    \/ PrintNoResultsFails
    \/ Interrupt
    \/ HandleInterrupt
    \/ HandleInterruptFails
    \/ HandleException
    \/ HandleExceptionFails
    \/ InterruptInHandler

Spec == Init /\ [][Next]_vars

(***************************************************************************)
(* Properties                                                              *)
(***************************************************************************)
\* a candidate record with a usable coordinate: a location with lat and lng
HasCoordinate(place) ==
    /\ "geometry" \in DOMAIN place
    /\ "location" \in DOMAIN place.geometry
    /\ "lat" \in DOMAIN place.geometry.location
    /\ "lng" \in DOMAIN place.geometry.location

NumWithCoordinate(placeList) ==
    Cardinality({i \in 1..Len(placeList) : HasCoordinate(placeList[i])})

\* the collaborator call failed: transport error, error status of the
\* transfer or of the service, or a body that is not the expected object
CallFailed(resp) ==
    \/ resp.net # "ok"
    \/ resp.http >= 400
    \/ ~resp.json
    \/ "status" \notin DOMAIN resp.data
    \/ resp.data.status # "OK"
    \/ "results" \notin DOMAIN resp.data

\* the resolver failed: the call failed, or its first match has no coordinate
ResolverFailed(resp) ==
    \/ CallFailed(resp)
    \/ resp.data.results = <<>>
    \/ ~HasCoordinate(resp.data.results[1])

\* find_nearest_locations raised instead of returning
PipelineRaised == calls # <<>> /\ raised \in {"KeyError", "ValueError"}

\* the entries before the sort, in the order of the candidates
Unsorted == calculate_distances(user[1][1], user[2][1], places).value

\* C1: every list find_nearest_locations returns is in ascending order of
\* distance_km: no entry is farther than the entry after it.
C1_Ascending ==
    pc = "print" =>
        \A i \in 1..(Len(results) - 1) :
            results[i].distance_km <= results[i + 1].distance_km

\* C1 witness: a list of two or more entries is returned for candidates that
\* did not arrive in ascending order.
C1_Witness ==
    /\ pc = "print"
    /\ Len(results) >= 2
    /\ \E i \in 1..(Len(Unsorted) - 1) :
           Unsorted[i].distance_km > Unsorted[i + 1].distance_km

\* C2: the sort is stable: for every distance, the returned entries at that
\* distance are, in the same order, the entries the candidates at that
\* distance produced.
C2_Stable ==
    (pc = "print" /\ places # <<>>) =>
        \A k \in 1..Len(results) :
            SelectSeq(results, LAMBDA e : e.distance_km = results[k].distance_km)
                = SelectSeq(Unsorted, LAMBDA e : e.distance_km = results[k].distance_km)

\* C2 witness: two different candidates at the same distance are returned,
\* next to each other, in a list that the sort had to reorder.
C2_Witness ==
    /\ pc = "print"
    /\ \E i \in 1..(Len(results) - 1) :
           /\ results[i].distance_km = results[i + 1].distance_km
           /\ results[i] # results[i + 1]
    /\ results # Unsorted

\* C3: when the resolver fails, the query ends with an empty list and the
\* only collaborator call it ever makes is the resolve call.
C3_ResolverFails ==
    (calls # <<>> /\ ResolverFailed(geoResp)) =>
        /\ results = <<>>
        /\ calls = <<"get_coordinates">>
        /\ pc # "search_places"
        /\ ~PipelineRaised

\* C3 witness: the resolver failed and find_nearest_locations has returned.
C3_Witness ==
    /\ pc = "print"
    /\ calls # <<>>
    /\ ResolverFailed(geoResp)

\* C4: when the resolver succeeds and the search call fails or finds no
\* candidate, the query returns an empty list after exactly one resolve call
\* followed by exactly one search call.
C4_SearchFails ==
    (placesResp # NoResponse
        /\ (CallFailed(placesResp) \/ placesResp.data.results = <<>>)) =>
        /\ results = <<>>
        /\ calls = <<"get_coordinates", "search_places">>
        /\ ~PipelineRaised

\* C4 witness: the search call failed after a successful resolve call and
\* find_nearest_locations has returned.
C4_Witness ==
    /\ pc = "print"
    /\ ~ResolverFailed(geoResp)
    /\ placesResp # NoResponse
    /\ CallFailed(placesResp)

\* C5: find_nearest_locations never raises to its caller, whatever the two
\* collaborators answer.
C5_NeverRaises == ~PipelineRaised

\* C6: the returned list has one entry per candidate with a usable coordinate
\* and none for the others, and it is the list returned for the candidates
\* with the coordinate-less ones removed.
C6_Dropped ==
    places # <<>> =>
        /\ ~PipelineRaised
        /\ Len(results) = NumWithCoordinate(places)
        /\ results = RankPlaces(user, SelectSeq(places, HasCoordinate)).value

\* the comma-joined text of at most two tags
TagsText(tags) ==
    IF Len(tags) = 0 THEN ""
    ELSE IF Len(tags) = 1 THEN tags[1]
    ELSE tags[1] \o ", " \o tags[2]

\* entry e carries the fields of candidate p, or the defaults for those p lacks
EntryOf(e, p) ==
    /\ e.coordinates = <<p.geometry.location.lat, p.geometry.location.lng>>
    /\ e.name = (IF "name" \in DOMAIN p THEN p.name ELSE "Unknown")
    /\ e.address = (IF "vicinity" \in DOMAIN p THEN p.vicinity ELSE "Address not available")
    /\ e.rating = (IF "rating" \in DOMAIN p THEN p.rating ELSE "No rating")
    /\ e.types = (IF "types" \in DOMAIN p THEN TagsText(p.types) ELSE "")

\* C7: every returned entry carries the name, vicinity, rating and joined
\* tags of a candidate with a coordinate, with "Unknown", "Address not
\* available", "No rating" and "" for the fields that candidate lacks; and
\* every candidate with a coordinate has such an entry.
C7_Defaults ==
    pc = "print" =>
        /\ \A j \in 1..Len(results) :
               \E i \in 1..Len(places) :
                   HasCoordinate(places[i]) /\ EntryOf(results[j], places[i])
        /\ \A i \in 1..Len(places) :
               HasCoordinate(places[i]) =>
                   \E j \in 1..Len(results) : EntryOf(results[j], places[i])

\* C7 witness: the returned list holds an entry with each of the four
\* defaults and an entry with each of the four fields copied.
C7_Witness ==
    /\ pc = "print"
    /\ \E j \in 1..Len(results) :
           results[j].name = "Unknown" /\ results[j].rating = "No rating"
    /\ \E j \in 1..Len(results) :
           results[j].address = "Address not available" /\ results[j].types = ""
    /\ \E j \in 1..Len(results) :
           /\ results[j].name = "Alpha"
           /\ results[j].address = "1 Main St"
           /\ results[j].rating = "4.5"
           /\ results[j].types = "cafe, food"

\* C8: find_nearest_locations returns one entry per candidate with a
\* coordinate, however many, and the loop prints the first min(10, n) of
\* them, in the order of the list, under a header that says min(10, n).
C8_Truncation ==
    /\ pc = "print" => Len(results) = NumWithCoordinate(places)
    /\ message = "results" =>
           /\ topN = Some(Min(DisplayLimit, Len(results)))
           /\ Len(shown) = Min(DisplayLimit, Len(results))
           /\ \A i \in 1..Len(shown) : shown[i] = results[i]

\* C8 witness: more than ten entries were returned and ten were printed.
C8_Witness ==
    /\ message = "results"
    /\ Len(results) > DisplayLimit
    /\ Len(shown) = DisplayLimit

\* C9: the loop ends exactly when the sentinel keyword is entered or an
\* interrupt occurs: main() is left only after one of the two, and it is left
\* after either.
C9_LoopEnds ==
    /\ pc = "exited" => (quitEntered \/ interrupted)
    /\ quitEntered => pc = "exited"
    /\ interrupted => pc \in {"except_interrupt", "exited"}

====
